---- MODULE Spec2Model ----
(***************************************************************************)
(* A model of py-factorgraph's graph.py: the Graph / RV / Factor objects,  *)
(* the construction calls (add_rv, add_factor, Factor(...), attach,        *)
(* set_belief), the queries joint and bf_best_joint, and the loopy belief  *)
(* propagation driver lbp.  Every object is built with debug=True          *)
(* (DEBUG_DEFAULT), so every `if self.debug:` block is taken.              *)
(*                                                                         *)
(* Numbers.  Belief entries are integers; the floating point beliefs of    *)
(* the pyfac scenario are held in tenths (0.3 is 3), so a joint over two   *)
(* factors is held in hundredths.  Message entries are exact rationals     *)
(* <<n, d>> (d = 0 stands for numpy's inf / nan).                          *)
(*                                                                         *)
(* The client.  A behaviour is one use of the module in the order its      *)
(* docstring gives: any construction calls in any order, then one          *)
(* inference call (joint, bf_best_joint or lbp).  joint and bf_best_joint  *)
(* change no object, and lbp resets every message before it reads one, so  *)
(* further inference calls would reach no graph state these do not.        *)
(*                                                                         *)
(* Specifications.  Spec: construction, then joint or bf_best_joint.       *)
(* SpecFactor: Factor construction, attach and set_belief alone.  SpecLbp: *)
(* construction, then lbp.  SpecLbpFair: the graph's structure, then lbp,  *)
(* under weak fairness of lbp's steps.  SpecRV: Factor construction, with  *)
(* init_lbp and recompute_outgoing called on the RVs directly.             *)
(***************************************************************************)
EXTENDS Integers, Sequences, FiniteSets, TLC

\* ------------------------------------------------------------------ bounds

\* How many Factor objects the client constructs (failed constructions count).
MaxFactors == 2
\* Longest RV list handed to Factor(...) and the most RVs a factor holds.
MaxArity == 2

\* --------------------------------------------------------- program constants

LBP_MAX_ITERS == 50

\* ----------------------------------------------------------- the RV objects

\* The RV objects the client has constructed (RV.__init__): name, n_opts, labels.
RVs == {"ra", "rb"}
RVName == [ra |-> "a", rb |-> "b"]
RVOpts == [ra |-> 3, rb |-> 2]
RVLabels == [ra |-> <<>>, rb |-> <<"n", "y">>]

FactorIds == 1..MaxFactors

\* ------------------------------------------------------------ small helpers

Range(s) == {s[i] : i \in DOMAIN s}

RECURSIVE ProdSeq(_)
ProdSeq(s) == IF s = <<>> THEN 1 ELSE Head(s) * ProdSeq(Tail(s))

\* Python's list.index: the first position (0-based) holding v.
ListIndex(s, v) == (CHOOSE i \in DOMAIN s : s[i] = v /\ \A j \in 1..(i-1) : s[j] # v) - 1

\* ------------------------------------------------------------ numpy arrays

\* An ndarray: its shape and its entries in row-major (C) order.  None is the
\* value of a belief that is not set.
None == [none |-> TRUE, shape |-> <<>>, data |-> <<>>]
Arr(shape, data) == [none |-> FALSE, shape |-> shape, data |-> data]

\* b[i] on an ndarray of rank >= 1: the i-th block along the first axis; a
\* negative i counts from the end, anything else outside the axis is IndexError.
IndexOk(t, i) == t.shape # <<>> /\ i >= -t.shape[1] /\ i < t.shape[1]
Index(t, i) ==
    LET n == t.shape[1]
        k == IF i < 0 THEN i + n ELSE i
        stride == ProdSeq(Tail(t.shape))
    IN Arr(Tail(t.shape), SubSeq(t.data, k * stride + 1, (k + 1) * stride))

\* The belief tensors the client passes to set_belief.
TensorPool ==
    { Arr(<<2>>, <<3, 7>>),
      Arr(<<2>>, <<8, 2>>),
      Arr(<<2>>, <<0, 0>>),
      Arr(<<2>>, <<1, 1>>),
      Arr(<<3>>, <<5, 1, 4>>),
      Arr(<<3, 2>>, <<2, 8, 4, 6, 1, 9>>),
      Arr(<<3, 2>>, <<1, 1, 1, 1, 1, 1>>),
      Arr(<<>>, <<5>>) }

\* ------------------------------------------------------------------- state

VARIABLES
    g_rvs,        \* Graph._rvs: name -> RV object, as a set of <<name, rv>>
    g_factors,    \* Graph._factors: list of Factor objects
    rv_factors,   \* RV._factors, per RV object
    rv_outgoing,  \* RV._outgoing, per RV object: not set, or a list of vectors
    f_made,       \* how many Factor objects have been allocated
    f_live,       \* the Factor objects whose constructor returned
    f_rvs,        \* Factor._rvs, per Factor object
    f_belief,     \* Factor._belief, per Factor object
    f_outgoing,   \* Factor._outgoing, per Factor object
    ret,          \* the last call and what it returned or raised (for attach also
                  \* the factor and whether it held a belief when called)
    pc,           \* where the client is: "build", inside lbp, or "done"
    nodes,        \* lbp's local `nodes`
    cur_iter,     \* lbp's local `cur_iter`
    converged,    \* lbp's local `converged`
    idx,          \* position of lbp's `for n in nodes` (1-based)
    reports       \* the recompute_outgoing calls of the current sweep: node and returned flag

heap == <<rv_factors, f_made, f_live, f_rvs, f_belief>>
graph == <<g_rvs, g_factors>>
msgs == <<rv_outgoing, f_outgoing>>
loop == <<pc, nodes, cur_iter, converged, idx, reports>>
vars == <<g_rvs, g_factors, rv_factors, rv_outgoing, f_made, f_live, f_rvs,
          f_belief, f_outgoing, ret, pc, nodes, cur_iter, converged, idx, reports>>

NoMsgs == [set |-> FALSE, v |-> <<>>]

Init ==
    /\ g_rvs = {}
    /\ g_factors = <<>>
    /\ rv_factors = [r \in RVs |-> <<>>]
    /\ rv_outgoing = [r \in RVs |-> NoMsgs]
    /\ f_made = 0
    /\ f_live = {}
    /\ f_rvs = [f \in FactorIds |-> <<>>]
    /\ f_belief = [f \in FactorIds |-> None]
    /\ f_outgoing = [f \in FactorIds |-> NoMsgs]
    /\ ret = [op |-> "init", err |-> "none"]
    /\ pc = "build"
    /\ nodes = <<>>
    /\ cur_iter = 0
    /\ converged = FALSE
    /\ idx = 0
    /\ reports = <<>>

\* ------------------------------------------------------------ Graph.add_rv

GraphNames == {p[1] : p \in g_rvs}
GraphRV(name) == (CHOOSE p \in g_rvs : p[1] = name)[2]

AddRv(r) ==
    /\ pc = "build"
    /\ IF RVName[r] \in GraphNames
       THEN /\ ret' = [op |-> "add_rv", err |-> "AssertionError"]
            /\ UNCHANGED g_rvs
       ELSE /\ g_rvs' = g_rvs \cup {<<RVName[r], r>>}
            /\ ret' = [op |-> "add_rv", err |-> "none"]
    /\ UNCHANGED <<g_factors, heap, msgs, loop>>

\* ------------------------------------------- RV.attach and Factor.attach

\* The part of the object heap attach works on.
Heap(rvf, frvs, fbel) == [err |-> "none", rv_factors |-> rvf, f_rvs |-> frvs, f_belief |-> fbel]

\* RV.attach(factor): TRUE when the debug loop finds the factor already there.
RVAttachFails(h, r, f) == \E i \in DOMAIN h.rv_factors[r] : h.rv_factors[r][i] = f

\* Factor.attach without its last statement `self._belief = None`.
FactorAttachKeepsBelief(h, f, r) ==
    IF \E i \in DOMAIN h.f_rvs[f] : h.f_rvs[f][i] = r
    THEN [h EXCEPT !.err = "AssertionError"]
    ELSE IF RVAttachFails(h, r, f)
    THEN [h EXCEPT !.err = "AssertionError"]
    ELSE [h EXCEPT !.rv_factors[r] = Append(@, f),
                   !.f_rvs[f] = Append(@, r)]

\* Factor.attach(rv): the factor's own check, rv.attach(self), then the RV
\* is appended and the belief cleared.
FactorAttach(h, f, r) ==
    IF \E i \in DOMAIN h.f_rvs[f] : h.f_rvs[f][i] = r
    THEN [h EXCEPT !.err = "AssertionError"]
    ELSE IF RVAttachFails(h, r, f)
    THEN [h EXCEPT !.err = "AssertionError"]
    ELSE [h EXCEPT !.rv_factors[r] = Append(@, f),
                   !.f_rvs[f] = Append(@, r),
                   !.f_belief[f] = None]

\* Factor.__init__'s loop `for rv in rvs: self.attach(rv)`: the first attach
\* that raises ends the constructor, and what the earlier ones did stays.
RECURSIVE AttachAll(_, _, _)
AttachAll(h, f, rs) ==
    IF rs = <<>> \/ h.err # "none" THEN h
    ELSE AttachAll(FactorAttach(h, f, Head(rs)), f, Tail(rs))

FactorInit(f, rs) ==
    AttachAll(Heap(rv_factors, [f_rvs EXCEPT ![f] = <<>>], [f_belief EXCEPT ![f] = None]), f, rs)

RVLists == UNION {[1..n -> RVs] : n \in 0..MaxArity}

NewFactor(rs) ==
    /\ pc = "build"
    /\ f_made < MaxFactors
    /\ LET f == f_made + 1
           h == FactorInit(f, rs)
       IN /\ f_made' = f
          /\ rv_factors' = h.rv_factors
          /\ f_rvs' = h.f_rvs
          /\ f_belief' = h.f_belief
          /\ f_live' = IF h.err = "none" THEN f_live \cup {f} ELSE f_live
          /\ ret' = [op |-> "Factor", err |-> h.err]
    /\ UNCHANGED <<graph, msgs, loop>>

Attach(f, r) ==
    /\ pc = "build"
    /\ f \in f_live
    /\ LET h == FactorAttach(Heap(rv_factors, f_rvs, f_belief), f, r)
       IN /\ rv_factors' = h.rv_factors
          /\ f_rvs' = h.f_rvs
          /\ f_belief' = h.f_belief
          /\ ret' = [op |-> "attach", err |-> h.err, f |-> f, had |-> ~f_belief[f].none]
    /\ UNCHANGED <<graph, msgs, loop, f_made, f_live>>

\* ------------------------------------------------------- Factor.set_belief

\* set_belief's debug block without its loop over the axes: only the rank is
\* compared.
ShapeChecksRankOnly(f, b) == Len(b.shape) = Len(f_rvs[f])

\* The debug block of set_belief: the rank, then every axis in turn.
ShapeChecks(f, b) ==
    /\ Len(b.shape) = Len(f_rvs[f])
    /\ \A i \in DOMAIN b.shape : b.shape[i] = RVOpts[f_rvs[f][i]]

SetBelief(f, b) ==
    /\ pc = "build"
    /\ f \in f_live
    /\ IF ShapeChecks(f, b)
       THEN /\ f_belief' = [f_belief EXCEPT ![f] = b]
            /\ ret' = [op |-> "set_belief", err |-> "none", f |-> f, b |-> b]
       ELSE /\ UNCHANGED f_belief
            /\ ret' = [op |-> "set_belief", err |-> "AssertionError", f |-> f, b |-> b]
    /\ UNCHANGED <<graph, msgs, loop, rv_factors, f_made, f_live, f_rvs>>

\* -------------------------------------------------------- Graph.add_factor

\* sorted(factor._rvs) == sorted(f._rvs): the two lists hold the same objects.
SameSorted(s, t) ==
    /\ Len(s) = Len(t)
    /\ \A r \in RVs : Cardinality({i \in DOMAIN s : s[i] = r}) = Cardinality({i \in DOMAIN t : t[i] = r})

AddFactorChecks(f) ==
    /\ f \notin Range(g_factors)
    /\ \A i \in DOMAIN g_factors : ~SameSorted(f_rvs[f], f_rvs[g_factors[i]])

AddFactor(f) ==
    /\ pc = "build"
    /\ f \in f_live
    /\ IF AddFactorChecks(f)
       THEN /\ g_factors' = Append(g_factors, f)
            /\ ret' = [op |-> "add_factor", err |-> "none"]
       ELSE /\ UNCHANGED g_factors
            /\ ret' = [op |-> "add_factor", err |-> "AssertionError"]
    /\ UNCHANGED <<g_rvs, heap, msgs, loop>>

\* ------------------------------------------- RV.has_label, get_int_label

\* A value of an assignment: a Python int or a Python str.
IntV(i) == [t |-> "int", i |-> i, s |-> ""]
StrV(s) == [t |-> "str", i |-> 0, s |-> s]

\* RV.has_label(label): "True", "False", or "AssertionError" from the debug
\* type assertion.  The int branch is `label < self.n_opts` and nothing more.
HasLabel(r, label) ==
    IF Len(RVLabels[r]) = 0
    THEN IF label.t # "int" THEN "AssertionError"
         ELSE IF label.i < RVOpts[r] THEN "True" ELSE "False"
    ELSE IF label.t = "str"
         THEN IF label.s \in Range(RVLabels[r]) THEN "True" ELSE "False"
         ELSE IF label.i < RVOpts[r] THEN "True" ELSE "False"

GetIntLabel(r, label) ==
    IF label.t = "int" THEN label.i ELSE ListIndex(RVLabels[r], label.s)

\* ------------------------------------------------------------- Factor.eval

\* The loop `for r in self._rvs: ret = ret[r.get_int_label(x[r.name])]`.
RECURSIVE Slim(_, _, _)
Slim(cur, rs, x) ==
    IF rs = <<>> \/ cur.err # "none" THEN cur
    ELSE LET i == GetIntLabel(Head(rs), x[RVName[Head(rs)]])
         IN IF cur.t.none THEN [cur EXCEPT !.err = "TypeError"]
            ELSE IF ~IndexOk(cur.t, i) THEN [cur EXCEPT !.err = "IndexError"]
            ELSE Slim([err |-> "none", t |-> Index(cur.t, i)], Tail(rs), x)

\* What eval returns: [err, isnone, val].  An ndarray that was never indexed
\* is still an ndarray (so is one with axes left), and then the closing debug
\* assertion `type(ret) is not np.ndarray` raises.
FactorEval(f, x) ==
    IF \E i \in DOMAIN f_rvs[f] :
           \/ RVName[f_rvs[f][i]] \notin DOMAIN x
           \/ HasLabel(f_rvs[f][i], x[RVName[f_rvs[f][i]]]) # "True"
    THEN [err |-> "AssertionError", isnone |-> FALSE, val |-> 0]
    ELSE LET s == Slim([err |-> "none", t |-> f_belief[f]], f_rvs[f], x)
         IN IF s.err # "none" THEN [err |-> s.err, isnone |-> FALSE, val |-> 0]
            ELSE IF s.t.none THEN [err |-> "none", isnone |-> TRUE, val |-> 0]
            ELSE IF f_rvs[f] = <<>> \/ s.t.shape # <<>>
                 THEN [err |-> "AssertionError", isnone |-> FALSE, val |-> 0]
            ELSE [err |-> "none", isnone |-> FALSE, val |-> s.t.data[1]]

\* ------------------------------------------------------------- Graph.joint

\* The debug block of joint: the length, every key of x, every RV of the graph.
JointChecks(x) ==
    /\ Cardinality(DOMAIN x) = Cardinality(g_rvs)
    /\ \A name \in DOMAIN x :
          name \in GraphNames /\ HasLabel(GraphRV(name), x[name]) = "True"
    /\ \A p \in g_rvs : p[1] \in DOMAIN x /\ HasLabel(p[2], x[p[1]]) = "True"

\* prod = 1.0; for f in self._factors: prod *= f.eval(x)
RECURSIVE JointLoop(_, _, _)
JointLoop(prod, fs, x) ==
    IF fs = <<>> THEN [err |-> "none", val |-> prod]
    ELSE LET e == FactorEval(Head(fs), x)
         IN IF e.err # "none" THEN [err |-> e.err, val |-> 0]
            ELSE IF e.isnone THEN [err |-> "TypeError", val |-> 0]
            ELSE JointLoop(prod * e.val, Tail(fs), x)

JointOf(x) ==
    IF ~JointChecks(x) THEN [err |-> "AssertionError", val |-> 0]
    ELSE JointLoop(1, g_factors, x)

\* The assignments the client passes to joint.
Keys == {"a", "b"}
ValuePool == {IntV(i) : i \in -1..3} \cup {StrV("y"), StrV("q")}
Assignments == UNION {[D -> ValuePool] : D \in SUBSET Keys}

Joint(x) ==
    /\ pc = "build"
    /\ pc' = "done"
    /\ LET j == JointOf(x)
       IN ret' = [op |-> "joint", err |-> j.err, x |-> x, val |-> j.val]
    /\ UNCHANGED <<graph, heap, msgs, nodes, cur_iter, converged, idx, reports>>

\* ----------------------------------------------------- Graph.bf_best_joint

NoAssignment == [n \in {} |-> IntV(0)]
With(a, name, val) == [n \in DOMAIN a \cup {name} |-> IF n = name THEN IntV(val) ELSE a[n]]

\* _bf_bj_recurse(assigned, todo) returns [err, some, a, r]: some = FALSE is
\* best_a = None.  BfValues is its loop `for val in range(rv.n_opts)` from val on.
RECURSIVE BfRecurse(_, _), BfValues(_, _, _, _, _)
BfRecurse(assigned, todo) ==
    IF Len(todo) = 0
    THEN LET j == JointOf(assigned)
         IN [err |-> j.err, some |-> TRUE, a |-> assigned, r |-> j.val]
    ELSE BfValues(assigned, Head(todo), Tail(todo), 0,
                  [err |-> "none", some |-> FALSE, a |-> NoAssignment, r |-> 0])

BfValues(assigned, rv, todo, val, best) ==
    IF val >= RVOpts[rv] THEN best
    ELSE LET got == BfRecurse(With(assigned, RVName[rv], val), todo)
         IN IF got.err # "none" THEN got
            ELSE BfValues(assigned, rv, todo, val + 1,
                          IF got.r > best.r THEN got ELSE best)

\* self._rvs.values(): the RVs of the graph in the order the dict yields them.
Orders(S) == {s \in [1..Cardinality(S) -> S] : \A i, j \in DOMAIN s : i # j => s[i] # s[j]}
GraphRVSet == {p[2] : p \in g_rvs}

BfBestJoint(order) ==
    /\ pc = "build"
    /\ pc' = "done"
    /\ LET b == BfRecurse(NoAssignment, order)
       IN ret' = [op |-> "bf_best_joint", err |-> b.err, some |-> b.some,
                  a |-> b.a, r |-> b.r]
    /\ UNCHANGED <<graph, heap, msgs, nodes, cur_iter, converged, idx, reports>>

\* -------------------------------------------------------- message vectors

\* A float held exactly: <<n, d>> in lowest terms with d > 0; <<1, 0>> and
\* <<-1, 0>> are numpy's inf and -inf, <<0, 0>> is nan.
Abs(n) == IF n < 0 THEN -n ELSE n
Sign(n) == IF n < 0 THEN -1 ELSE IF n > 0 THEN 1 ELSE 0

RECURSIVE Gcd(_, _)
Gcd(a, b) == IF b = 0 THEN a ELSE Gcd(b, a % b)

Norm(n, d) ==
    IF d = 0 THEN <<Sign(n), 0>>
    ELSE LET g == Gcd(Abs(n), Abs(d))
         IN <<Sign(d) * (n \div g), Abs(d) \div g>>

\* numpy's true division of floats (a zero divisor gives inf or nan, no error).
FDiv(a, b) ==
    IF (a[2] = 0 /\ a[1] = 0) \/ (b[2] = 0 /\ b[1] = 0) THEN <<0, 0>>
    ELSE IF a[2] = 0 /\ b[2] = 0 THEN <<0, 0>>
    ELSE IF b[2] = 0 THEN <<0, 1>>
    ELSE IF a[2] = 0 THEN <<a[1] * (IF b[1] < 0 THEN -1 ELSE 1), 0>>
    ELSE Norm(a[1] * b[2], a[2] * b[1])

\* np.isclose(a, b) with its defaults: |a - b| <= atol + rtol * |b|, where
\* atol = 1e-8 and rtol = 1e-5; equal infinities are close, nan never is.
\* (The inequality is scaled by 1e8 * a[2] * b[2]; its left side is 1e8
\* times an integer, so the right side is compared after integer division.)
IsClose(a, b) ==
    IF a[2] = 0 \/ b[2] = 0 THEN a = b /\ a[1] # 0
    ELSE IF a = b THEN TRUE
    ELSE Abs(a[1] * b[2] - b[1] * a[2]) <= (a[2] * b[2] + 1000 * Abs(b[1]) * a[2]) \div 100000000

\* np.ones(n)
Ones(n) == [i \in 1..n |-> <<1, 1>>]
VecDiv(u, v) == [i \in DOMAIN u |-> FDiv(u[i], v[i])]
\* sum(np.isclose(u, v)): how many entries are close.
CloseCount(u, v) == Cardinality({i \in DOMAIN u : IsClose(u[i], v[i])})

Msgs(v) == [set |-> TRUE, v |-> v]

\* ------------------------------------------------ init_lbp, RV and Factor

RVInitLbp(r) == Msgs([i \in DOMAIN rv_factors[r] |-> Ones(RVOpts[r])])
FactorInitLbp(f) == Msgs([i \in DOMAIN f_rvs[f] |-> Ones(RVOpts[f_rvs[f][i]])])

\* ------------------------------------------------- Factor.get_message_for

\* get_message_for returning np.zeros(rv.n_opts) in place of np.ones.
GetMessageForZeros(f, r) == [i \in 1..RVOpts[r] |-> <<0, 1>>]

\* `return np.ones(rv.n_opts)`, whatever the factor's belief and messages.
GetMessageFor(f, r) == Ones(RVOpts[r])

\* --------------------------------------------------- RV.recompute_outgoing

\* recompute_outgoing with `total = np.zeros(self.n_opts)` in place of np.ones.
RecomputeOutgoingZeroTotal(r, incoming) ==
    IF ~rv_outgoing[r].set
    THEN [err |-> "AssertionError", out |-> rv_outgoing[r], conv |-> FALSE]
    ELSE LET old == rv_outgoing[r].v
             k == Len(rv_factors[r])
             total == [i \in 1..RVOpts[r] |-> <<0, 1>>]
             new == [i \in DOMAIN old |-> IF i <= k THEN VecDiv(total, incoming[i]) ELSE old[i]]
         IN IF \E i \in DOMAIN incoming : Len(incoming[i]) # RVOpts[r]
            THEN [err |-> "AssertionError", out |-> rv_outgoing[r], conv |-> FALSE]
            ELSE IF Len(old) < k
            THEN [err |-> "IndexError", out |-> Msgs(new), conv |-> FALSE]
            ELSE [err |-> "none",
                  out |-> Msgs(new),
                  conv |-> \A i \in 1..k : CloseCount(old[i], new[i]) = RVOpts[r]]

\* The method on the incoming messages its loop over self._factors collects
\* (incoming[i] is what the i-th factor's get_message_for returns), as
\* [err, out, conv]: the new RV._outgoing and the returned flag.  `total`
\* stays np.ones(n_opts); each outgoing[i] is assigned in turn, so a list
\* _outgoing shorter than _factors raises IndexError after the entries it
\* has were replaced.
RecomputeOutgoing(r, incoming) ==
    IF ~rv_outgoing[r].set
    THEN [err |-> "AssertionError", out |-> rv_outgoing[r], conv |-> FALSE]
    ELSE LET old == rv_outgoing[r].v
             k == Len(rv_factors[r])
             total == Ones(RVOpts[r])
             new == [i \in DOMAIN old |-> IF i <= k THEN VecDiv(total, incoming[i]) ELSE old[i]]
         IN IF \E i \in DOMAIN incoming : Len(incoming[i]) # RVOpts[r]
            THEN [err |-> "AssertionError", out |-> rv_outgoing[r], conv |-> FALSE]
            ELSE IF Len(old) < k
            THEN [err |-> "IndexError", out |-> Msgs(new), conv |-> FALSE]
            ELSE [err |-> "none",
                  out |-> Msgs(new),
                  conv |-> \A i \in 1..k : CloseCount(old[i], new[i]) = RVOpts[r]]

\* recompute_outgoing on an RV whose factors are Factor objects.
RVRecompute(r) ==
    RecomputeOutgoing(r, [i \in DOMAIN rv_factors[r] |-> GetMessageFor(rv_factors[r][i], r)])

\* ----------------------------------------------- Factor.recompute_outgoing

\* `return True`: no message is recomputed.
FactorRecompute(f) == [err |-> "none", out |-> f_outgoing[f], conv |-> TRUE]

\* ---------------------------------------------------- Graph._sorted_nodes

RVNode(r) == [kind |-> "rv", rv |-> r, f |-> 0]
FactorNode(f) == [kind |-> "factor", rv |-> "", f |-> f]
NEdges(n) == IF n.kind = "rv" THEN Len(rv_factors[n.rv]) ELSE Len(f_rvs[n.f])

\* sorted(..., key=n_edges) is stable: insert each node after the nodes whose
\* key is not larger.
RECURSIVE InsertByEdges(_, _)
InsertByEdges(sorted, n) ==
    IF sorted = <<>> THEN <<n>>
    ELSE IF NEdges(sorted[Len(sorted)]) <= NEdges(n) THEN Append(sorted, n)
    ELSE Append(InsertByEdges(SubSeq(sorted, 1, Len(sorted) - 1), n), sorted[Len(sorted)])

RECURSIVE StableSort(_, _)
StableSort(sorted, rest) ==
    IF rest = <<>> THEN sorted ELSE StableSort(InsertByEdges(sorted, Head(rest)), Tail(rest))

\* nodes = rvs + facs, with rvs = self._rvs.values() in the dict's order.
SortedNodes(order) ==
    StableSort(<<>>, [i \in DOMAIN order |-> RVNode(order[i])]
                     \o [i \in DOMAIN g_factors |-> FactorNode(g_factors[i])])

\* --------------------------------------------------------------- Graph.lbp

\* nodes = self._sorted_nodes(); self._init_messages(nodes); cur_iter, converged = 0, False
LbpStart(order) ==
    /\ pc = "build"
    /\ nodes' = SortedNodes(order)
    /\ rv_outgoing' = [r \in RVs |-> IF r \in GraphRVSet THEN RVInitLbp(r) ELSE rv_outgoing[r]]
    /\ f_outgoing' = [f \in FactorIds |-> IF f \in Range(g_factors) THEN FactorInitLbp(f)
                                          ELSE f_outgoing[f]]
    /\ cur_iter' = 0
    /\ converged' = FALSE
    /\ idx' = 0
    /\ reports' = <<>>
    /\ pc' = "while"
    /\ ret' = [op |-> "lbp", err |-> "none"]
    /\ UNCHANGED <<graph, heap>>

\* The loop test without `and not converged`.
LoopTestCapOnly == cur_iter < LBP_MAX_ITERS

\* The loop test `cur_iter < LBP_MAX_ITERS and not converged`.
LoopTest == cur_iter < LBP_MAX_ITERS /\ ~converged

\* One pass of the while body up to the for loop: cur_iter += 1; converged = True
LbpSweep ==
    /\ pc = "while"
    /\ LoopTest
    /\ cur_iter' = cur_iter + 1
    /\ converged' = TRUE
    /\ idx' = 1
    /\ reports' = <<>>
    /\ pc' = IF nodes = <<>> THEN "while" ELSE "for"
    /\ UNCHANGED <<graph, heap, msgs, nodes, ret>>

Recompute(n) == IF n.kind = "rv" THEN RVRecompute(n.rv) ELSE FactorRecompute(n.f)

\* converged = converged and n_converged, with both operands already computed.
AndConverged(c, n_converged) == c /\ n_converged

\* One pass of the for body: n_converged = n.recompute_outgoing(); ...
LbpNode ==
    /\ pc = "for"
    /\ LET n == nodes[idx]
           res == Recompute(n)
       IN IF res.err # "none"
          THEN /\ pc' = "done"
               /\ ret' = [op |-> "lbp", err |-> res.err]
               /\ UNCHANGED <<msgs, converged, idx, reports>>
          ELSE /\ rv_outgoing' = IF n.kind = "rv" THEN [rv_outgoing EXCEPT ![n.rv] = res.out]
                                 ELSE rv_outgoing
               /\ f_outgoing' = IF n.kind = "factor" THEN [f_outgoing EXCEPT ![n.f] = res.out]
                                ELSE f_outgoing
               /\ converged' = AndConverged(converged, res.conv)
               /\ reports' = Append(reports, [node |-> n, conv |-> res.conv])
               /\ idx' = idx + 1
               /\ pc' = IF idx = Len(nodes) THEN "while" ELSE "for"
               /\ UNCHANGED ret
    /\ UNCHANGED <<graph, heap, nodes, cur_iter>>

\* The loop test fails: lbp returns.
LbpReturn ==
    /\ pc = "while"
    /\ ~LoopTest
    /\ pc' = "done"
    /\ UNCHANGED <<graph, heap, msgs, nodes, cur_iter, converged, idx, reports, ret>>

Lbp ==
    \/ \E order \in Orders(GraphRVSet) : LbpStart(order)
    \/ LbpSweep
    \/ LbpNode
    \/ LbpReturn

\* ------------------------------- RV.init_lbp and RV.recompute_outgoing, called

\* rv.init_lbp()
InitLbp(r) ==
    /\ pc = "build"
    /\ rv_outgoing' = [rv_outgoing EXCEPT ![r] = RVInitLbp(r)]
    /\ ret' = [op |-> "init_lbp", err |-> "none"]
    /\ UNCHANGED <<graph, heap, f_outgoing, loop>>

\* rv.recompute_outgoing(); the call record keeps the messages the RV's
\* factors answered get_message_for with.
RecomputeOutgoingCall(r) ==
    /\ pc = "build"
    /\ LET res == RVRecompute(r)
       IN /\ rv_outgoing' = [rv_outgoing EXCEPT ![r] = res.out]
          /\ ret' = [op |-> "recompute_outgoing", err |-> res.err, r |-> r,
                     incoming |-> [i \in DOMAIN rv_factors[r] |->
                                      GetMessageFor(rv_factors[r][i], r)],
                     conv |-> res.conv]
    /\ UNCHANGED <<graph, heap, f_outgoing, loop>>

\* ---------------------------------------------------------- specifications

\* The construction calls, with beliefs drawn from T.
Build(T) ==
    \/ \E r \in RVs : AddRv(r)
    \/ \E rs \in RVLists : NewFactor(rs)
    \/ \E f \in FactorIds, r \in RVs : Attach(f, r)
    \/ \E f \in FactorIds, b \in T : SetBelief(f, b)
    \/ \E f \in FactorIds : AddFactor(f)

\* The beliefs of the joint scenarios: pyfac's two, an all-zero one, one over
\* a alone and the rank-0 one.
JointTensors ==
    { Arr(<<2>>, <<3, 7>>),
      Arr(<<2>>, <<0, 0>>),
      Arr(<<3>>, <<5, 1, 4>>),
      Arr(<<3, 2>>, <<2, 8, 4, 6, 1, 9>>),
      Arr(<<>>, <<5>>) }

\* Construction, then joint or bf_best_joint.
Next ==
    \/ Build(JointTensors)
    \/ \E x \in Assignments : Joint(x)
    \/ \E order \in Orders(GraphRVSet) : BfBestJoint(order)

Spec == Init /\ [][Next]_vars

\* Factor objects alone: construction, attach and set_belief.
NextFactor ==
    \/ \E rs \in RVLists : NewFactor(rs)
    \/ \E f \in FactorIds, r \in RVs : Attach(f, r)
    \/ \E f \in FactorIds, b \in TensorPool : SetBelief(f, b)

SpecFactor == Init /\ [][NextFactor]_vars

\* Factor construction, with init_lbp and recompute_outgoing called on the
\* RVs directly.
NextRV ==
    \/ \E rs \in RVLists : NewFactor(rs)
    \/ \E r \in RVs : InitLbp(r)
    \/ \E r \in RVs : RecomputeOutgoingCall(r)

SpecRV == Init /\ [][NextRV]_vars

\* Construction, then lbp.
NextLbp == Build(TensorPool) \/ Lbp

SpecLbp == Init /\ [][NextLbp]_vars

\* The graph's structure, then lbp.  lbp reads no belief, so set_belief is
\* left out.  lbp is straight-line code: once called it runs on to its
\* return, which is weak fairness of its steps.
NextLbpFair ==
    \/ \E r \in RVs : AddRv(r)
    \/ \E rs \in RVLists : NewFactor(rs)
    \/ \E f \in FactorIds, r \in RVs : Attach(f, r)
    \/ \E f \in FactorIds : AddFactor(f)
    \/ Lbp

SpecLbpFair == Init /\ [][NextLbpFair]_vars /\ WF_vars(Lbp)
\* ------------------------------------------------- what the claims speak of

\* A valid full assignment: exactly the graph's RV names, each with a value of
\* its RV's domain (an index 0..n_opts-1, or one of the RV's labels).
InDomain(r, label) ==
    IF label.t = "int" THEN label.i \in 0..(RVOpts[r] - 1)
    ELSE label.s \in Range(RVLabels[r])
ValidAssignment(x) ==
    /\ DOMAIN x = GraphNames
    /\ \A name \in DOMAIN x : InDomain(GraphRV(name), x[name])

\* The graph is put together as the module's docstring says: every RV a
\* registered factor touches is registered under its name.
FactorsOverGraphRVs ==
    \A i \in DOMAIN g_factors : \A j \in DOMAIN f_rvs[g_factors[i]] :
        <<RVName[f_rvs[g_factors[i]][j]], f_rvs[g_factors[i]][j]>> \in g_rvs
AllBeliefsSet == \A i \in DOMAIN g_factors : ~f_belief[g_factors[i]].none

\* The index of a value: a label's position, an index itself.
ValueIndex(r, label) ==
    IF label.t = "int" THEN label.i
    ELSE CHOOSE k \in 0..(RVOpts[r] - 1) : RVLabels[r][k + 1] = label.s

\* The entry of tensor b at the index tuple ix (0-based), by row-major offset.
RECURSIVE Offset(_, _)
Offset(shape, ix) ==
    IF shape = <<>> THEN 0
    ELSE ix[1] * ProdSeq(Tail(shape)) + Offset(Tail(shape), Tail(ix))
Entry(b, ix) == b.data[1 + Offset(b.shape, ix)]

\* f_a(x_a): the belief entry at the values x gives f's RVs, in attachment order.
FactorAt(f, x) ==
    Entry(f_belief[f], [j \in DOMAIN f_rvs[f] |-> ValueIndex(f_rvs[f][j], x[RVName[f_rvs[f][j]]])])

RECURSIVE ProductOver(_, _)
ProductOver(F, x) ==
    IF F = {} THEN 1
    ELSE LET f == CHOOSE g \in F : TRUE IN FactorAt(f, x) * ProductOver(F \ {f}, x)

\* Every full assignment of the graph with index values.
Indexes == UNION {0..(RVOpts[r] - 1) : r \in RVs}
FullAssignments == {x \in UNION {[D -> {IntV(i) : i \in Indexes}] : D \in SUBSET Keys} : ValidAssignment(x)}

\* ------------------------------------------------------------------ claims

\* C1: on every graph whose factors all have a belief, joint(x) of a valid full
\* assignment x returns the product over the registered factors of the belief
\* entry at x's values for the factor's RVs.
C1_JointIsProduct ==
    (ret.op = "joint" /\ FactorsOverGraphRVs /\ AllBeliefsSet /\ ValidAssignment(ret.x))
        => (ret.err = "none" /\ ret.val = ProductOver(Range(g_factors), ret.x))

\* C2: whenever joint scores every full assignment, bf_best_joint returns a
\* full assignment and a score, the score is joint of that assignment, and it
\* is the largest joint over all full assignments.
C2_BestJointIsMax ==
    (ret.op = "bf_best_joint" /\ \A x \in FullAssignments : JointOf(x).err = "none")
        => /\ ret.err = "none"
           /\ ret.some
           /\ ret.a \in FullAssignments
           /\ ret.r = JointOf(ret.a).val
           /\ \A x \in FullAssignments : JointOf(x).val <= ret.r

\* With C1: on graphs whose factors all touch an RV, joint is the product.
C1_ProductWhenFactorsHaveRVs ==
    (ret.op = "joint" /\ FactorsOverGraphRVs /\ AllBeliefsSet /\ ValidAssignment(ret.x)
       /\ \A f \in Range(g_factors) : f_rvs[f] # <<>>)
        => (ret.err = "none" /\ ret.val = ProductOver(Range(g_factors), ret.x))

\* With C2: when some full assignment scores above zero, bf_best_joint
\* returns a maximising full assignment and its score.
C2_MaxWhenSomeScorePositive ==
    (ret.op = "bf_best_joint" /\ (\A x \in FullAssignments : JointOf(x).err = "none")
       /\ \E x \in FullAssignments : JointOf(x).val > 0)
        => /\ ret.err = "none"
           /\ ret.some
           /\ ret.a \in FullAssignments
           /\ ret.r = JointOf(ret.a).val
           /\ \A x \in FullAssignments : JointOf(x).val <= ret.r

\* C3: joint raises on every assignment that is not a valid full assignment.
C3_InvalidAssignmentRaises ==
    (ret.op = "joint" /\ ~ValidAssignment(ret.x)) => ret.err # "none"

\* The shape the attached RVs ask of a belief: one axis per RV, as long as
\* the RV has values.
WantedShape(f) == [i \in DOMAIN f_rvs[f] |-> RVOpts[f_rvs[f][i]]]

\* With C3: joint returns a score only for the graph's names, each with an
\* index below n_opts or one of the RV's labels.
C3_ScoredAssignments ==
    (ret.op = "joint" /\ ret.err = "none")
        => /\ DOMAIN ret.x = GraphNames
           /\ \A n \in DOMAIN ret.x :
                 IF ret.x[n].t = "int" THEN ret.x[n].i < RVOpts[GraphRV(n)]
                 ELSE ret.x[n].s \in Range(RVLabels[GraphRV(n)])

\* C4: set_belief(b) succeeds exactly when b's shape is the attached RVs'
\* cardinalities in order; then b is the belief, and otherwise the belief is
\* what it was.
C4_SetBeliefTotal ==
    [][ret'.op = "set_belief" =>
          /\ (ret'.err = "none") <=> (ret'.b.shape = WantedShape(ret'.f))
          /\ ret'.err = "none" => f_belief'[ret'.f] = ret'.b
          /\ ret'.err # "none" => f_belief' = f_belief
          /\ \A g \in FactorIds \ {ret'.f} : f_belief'[g] = f_belief[g]]_vars

\* C4's case: a tensor of the right rank and a wrong axis length is refused
\* by a factor that holds a belief.
C4_Witness ==
    /\ ret.op = "set_belief" /\ ret.err = "AssertionError"
    /\ Len(ret.b.shape) = Len(f_rvs[ret.f])
    /\ ret.b.shape # WantedShape(ret.f)
    /\ ~f_belief[ret.f].none

\* C5: the graph never holds a factor twice, nor two factors over the same
\* set of RVs.
C5_NoStructuralDuplicates ==
    \A i, j \in DOMAIN g_factors :
        i # j => /\ g_factors[i] # g_factors[j]
                 /\ Range(f_rvs[g_factors[i]]) # Range(f_rvs[g_factors[j]])

\* C6: a construction call that raises leaves the graph, every RV's factor
\* list and every existing factor's RV list and belief as they were.
C6_FailedCallsChangeNothing ==
    [][(ret'.op \in {"add_rv", "add_factor", "attach", "Factor"} /\ ret'.err # "none") =>
          /\ g_rvs' = g_rvs
          /\ g_factors' = g_factors
          /\ rv_factors' = rv_factors
          /\ \A f \in 1..f_made : f_rvs'[f] = f_rvs[f] /\ f_belief'[f] = f_belief[f]]_vars

\* RV nodes and factor nodes of the graph.
GraphNodes == {RVNode(r) : r \in GraphRVSet} \cup {FactorNode(f) : f \in Range(g_factors)}

\* Exact arithmetic on message entries.
RMul(a, b) == Norm(a[1] * b[1], a[2] * b[2])
RECURSIVE VecProduct(_, _)
VecProduct(vs, n) ==
    IF vs = <<>> THEN [i \in 1..n |-> <<1, 1>>]
    ELSE [i \in 1..n |-> RMul(Head(vs)[i], VecProduct(Tail(vs), n)[i])]

\* The marginal lbp yields for r, unnormalised: the elementwise product of
\* the messages of r's factors.
MessageMarginal(r) ==
    VecProduct([i \in DOMAIN rv_factors[r] |-> GetMessageFor(rv_factors[r][i], r)], RVOpts[r])

\* The exact marginal of r, unnormalised: joint summed over the full
\* assignments that give r the value v (0-based).
RECURSIVE SumJoint(_)
SumJoint(X) ==
    IF X = {} THEN 0
    ELSE LET x == CHOOSE y \in X : TRUE IN JointOf(x).val + SumJoint(X \ {x})
ExactMarginal(r, v) == SumJoint({x \in FullAssignments : x[RVName[r]] = IntV(v)})

\* The factor graph has no cycle: stripping nodes of degree one, edge by
\* edge, leaves no edge.
GraphEdges == {<<f, r>> \in Range(g_factors) \X RVs : r \in Range(f_rvs[f])}
RECURSIVE Strips(_)
Strips(E) ==
    IF E = {} THEN TRUE
    ELSE LET leaves == {e \in E : \/ Cardinality({d \in E : d[1] = e[1]}) = 1
                                  \/ Cardinality({d \in E : d[2] = e[2]}) = 1}
         IN leaves # {} /\ Strips(E \ leaves)
Acyclic == Strips(GraphEdges)

\* A graph lbp is meant for: the RVs of registered factors are registered,
\* the factors of registered RVs are registered, every belief is set and every
\* factor touches an RV.
ProperGraph ==
    /\ FactorsOverGraphRVs
    /\ \A r \in GraphRVSet : Range(rv_factors[r]) \subseteq Range(g_factors)
    /\ AllBeliefsSet
    /\ \A f \in Range(g_factors) : f_rvs[f] # <<>>

LbpReturned == pc = "done" /\ ret.op = "lbp"

\* C7: on an acyclic graph lbp ends converged, and for each RV the normalised
\* product of its incoming factor messages is the exact marginal.
C7_TreeMarginalsExact ==
    (LbpReturned /\ ProperGraph /\ Acyclic /\ SumJoint(FullAssignments) > 0)
        => /\ ret.err = "none"
           /\ converged
           /\ \A r \in GraphRVSet : \A v, w \in 0..(RVOpts[r] - 1) :
                 MessageMarginal(r)[v + 1][1] * MessageMarginal(r)[w + 1][2] * ExactMarginal(r, w)
                   = MessageMarginal(r)[w + 1][1] * MessageMarginal(r)[v + 1][2] * ExactMarginal(r, v)

Uniform(b) == \A i, j \in DOMAIN b.data : b.data[i] = b.data[j]
UniformBeliefs == \A f \in Range(g_factors) : ~f_belief[f].none /\ Uniform(f_belief[f])
AllOnes(m, count, n) ==
    /\ m.set
    /\ Len(m.v) = count
    /\ \A i \in 1..count : m.v[i] = [k \in 1..n |-> <<1, 1>>]
FirstSweepOver == cur_iter = 1 /\ ret.op = "lbp" /\ (pc = "while" \/ pc = "done")

\* C8: with uniform beliefs, after the first sweep every outgoing message of
\* every node of the graph is all ones, as init_lbp left it, and every node
\* reported convergence.
C8_UniformFixedPoint ==
    (FirstSweepOver /\ UniformBeliefs)
        => /\ ret.err = "none"
           /\ \A r \in GraphRVSet :
                 /\ rv_outgoing[r].set /\ Len(rv_outgoing[r].v) = Len(rv_factors[r])
                 /\ \A i \in DOMAIN rv_outgoing[r].v :
                       rv_outgoing[r].v[i] = [k \in 1..RVOpts[r] |-> <<1, 1>>]
           /\ \A f \in Range(g_factors) :
                 /\ f_outgoing[f].set /\ Len(f_outgoing[f].v) = Len(f_rvs[f])
                 /\ \A i \in DOMAIN f_outgoing[f].v :
                       f_outgoing[f].v[i] = [k \in 1..RVOpts[f_rvs[f][i]] |-> <<1, 1>>]
           /\ Len(reports) = Len(nodes)
           /\ \A i \in DOMAIN reports : reports[i].conv

\* C8's case: a sweep is over on a graph of two factors with uniform beliefs
\* and an RV that both are attached to.
C8_Witness ==
    /\ FirstSweepOver /\ UniformBeliefs /\ ProperGraph
    /\ Len(g_factors) = 2
    /\ \E r \in GraphRVSet : Len(rv_factors[r]) = 2

AllReported == \A i \in DOMAIN reports : reports[i].conv
SweepOver == pc = "while" /\ cur_iter >= 1

\* What C9 says of every state of a call of lbp.
C9_Safety ==
    /\ ret.op = "lbp" => ret.err = "none"
    \* messages are reset before the first sweep
    /\ (pc = "while" /\ cur_iter = 0) =>
          /\ \A r \in GraphRVSet : AllOnes(rv_outgoing[r], Len(rv_factors[r]), RVOpts[r])
          /\ \A f \in Range(g_factors) :
                /\ f_outgoing[f].set /\ Len(f_outgoing[f].v) = Len(f_rvs[f])
                /\ \A i \in DOMAIN f_rvs[f] :
                      f_outgoing[f].v[i] = [k \in 1..RVOpts[f_rvs[f][i]] |-> <<1, 1>>]
    \* a sweep calls recompute_outgoing once on every RV and every factor
    /\ (SweepOver \/ LbpReturned) =>
          /\ Len(reports) = Cardinality(GraphNodes)
          /\ \A n \in GraphNodes : \E i \in DOMAIN reports : reports[i].node = n
    \* the loop goes on after a sweep exactly when a node did not converge
    \* and the cap is not reached
    /\ SweepOver => (ENABLED LbpSweep <=> (~AllReported /\ cur_iter < LBP_MAX_ITERS))
    /\ SweepOver => (ENABLED LbpReturn <=> (AllReported \/ cur_iter = LBP_MAX_ITERS))
    \* between 1 and LBP_MAX_ITERS sweeps; fewer than the cap only on convergence
    /\ LbpReturned =>
          /\ cur_iter \in 1..LBP_MAX_ITERS
          /\ cur_iter < LBP_MAX_ITERS => AllReported
          /\ ~AllReported => cur_iter = LBP_MAX_ITERS

\* C9: a call of lbp returns, and C9_Safety holds throughout.
C9_LbpTerminates == []C9_Safety /\ ((ret.op = "lbp") ~> LbpReturned)

\* C9's case: lbp has returned from a graph of two RVs and two factors.
C9_Witness ==
    /\ LbpReturned /\ ret.err = "none"
    /\ Cardinality(GraphNodes) = 4
    /\ Len(reports) = 4

\* The sum-product message of factor f for its j-th RV, unnormalised: over
\* the index tuples that give axis j the value v, the belief entry times the
\* other RVs' messages to f at their values.
IndexTuples(f) == {ix \in [DOMAIN f_rvs[f] -> Indexes] : \A k \in DOMAIN ix : ix[k] < RVOpts[f_rvs[f][k]]}
MessageToFactor(r, f) == rv_outgoing[r].v[ListIndex(rv_factors[r], f) + 1]
RECURSIVE OthersProduct(_, _, _, _)
OthersProduct(f, j, ix, k) ==
    IF k > Len(f_rvs[f]) THEN <<1, 1>>
    ELSE RMul(IF k = j THEN <<1, 1>> ELSE MessageToFactor(f_rvs[f][k], f)[ix[k] + 1],
              OthersProduct(f, j, ix, k + 1))
RAdd(a, b) == Norm(a[1] * b[2] + b[1] * a[2], a[2] * b[2])
RECURSIVE SumTerms(_, _, _)
SumTerms(f, j, IX) ==
    IF IX = {} THEN <<0, 1>>
    ELSE LET ix == CHOOSE y \in IX : TRUE
         IN RAdd(RMul(<<Entry(f_belief[f], ix), 1>>, OthersProduct(f, j, ix, 1)),
                 SumTerms(f, j, IX \ {ix}))
SumProduct(f, j, v) == SumTerms(f, j, {ix \in IndexTuples(f) : ix[j] = v})

\* a / b = c / d on rationals
Proportional(a, b, c, d) == RMul(a, d) = RMul(c, b)

\* C10: once recompute_outgoing has run on a factor, its message for each
\* attached RV is its stored outgoing message and is proportional to the
\* sum-product of the belief with the other RVs' messages.
C10_FactorSumProduct ==
    (ret.op = "lbp" /\ ret.err = "none" /\ ProperGraph /\ reports # <<>>
       /\ reports[Len(reports)].node.kind = "factor")
        => LET f == reports[Len(reports)].node.f
           IN \A j \in DOMAIN f_rvs[f] :
                 LET m == GetMessageFor(f, f_rvs[f][j])
                 IN /\ m = f_outgoing[f].v[j]
                    /\ \A v, w \in 0..(RVOpts[f_rvs[f][j]] - 1) :
                          Proportional(m[v + 1], m[w + 1], SumProduct(f, j, v), SumProduct(f, j, w))

\* ---------------------------------------------- C11: RV.recompute_outgoing

\* A step that is a call of rv.recompute_outgoing() that returned.
RecomputeReturned == ret'.op = "recompute_outgoing" /\ ret'.err = "none"

\* The list ms without its i-th entry.
Without(ms, i) == SubSeq(ms, 1, i - 1) \o SubSeq(ms, i + 1, Len(ms))

\* Every entry of the new message is np.isclose to the entry it replaced.
WithinTolerance(old, new) == \A k \in DOMAIN new : IsClose(old[k], new[k])

\* C11: a call of recompute_outgoing on an initialised RV leaves, for each
\* attached factor f_i, the elementwise product of the other factors'
\* incoming messages as the outgoing message to f_i (all ones when f_i is
\* the only factor), and returns true exactly when every new outgoing
\* message is within tolerance of the one it replaced.
C11_ExclusionRule ==
    [][RecomputeReturned =>
          LET r == ret'.r
              ms == ret'.incoming
          IN /\ Len(rv_outgoing'[r].v) = Len(rv_factors[r])
             /\ \A i \in DOMAIN rv_factors[r] :
                   rv_outgoing'[r].v[i] = VecProduct(Without(ms, i), RVOpts[r])
             /\ ret'.conv <=> \A i \in DOMAIN rv_factors[r] :
                   WithinTolerance(rv_outgoing[r].v[i], rv_outgoing'[r].v[i])]_vars

\* With C11: how the call arrives at it: each outgoing message is ones
\* divided by the factor's own incoming message.  The incoming messages are
\* all ones, so this is also the product of the other factors' messages.
C11_OutgoingIsReciprocal ==
    [][RecomputeReturned =>
          \A i \in DOMAIN rv_factors[ret'.r] :
              rv_outgoing'[ret'.r].v[i] = VecDiv(Ones(RVOpts[ret'.r]), ret'.incoming[i])]_vars

\* C11's case: recompute_outgoing returned on an initialised RV with two
\* factors attached, hence two incoming and two outgoing messages, while the
\* other RV, attached to one factor, holds its one outgoing message.
C11_Witness ==
    /\ ret.op = "recompute_outgoing" /\ ret.err = "none"
    /\ Len(rv_factors[ret.r]) = 2
    /\ Len(ret.incoming) = 2
    /\ rv_outgoing[ret.r].set /\ Len(rv_outgoing[ret.r].v) = 2
    /\ \E q \in RVs \ {ret.r} :
          /\ Len(rv_factors[q]) = 1
          /\ rv_outgoing[q].set /\ Len(rv_outgoing[q].v) = 1

\* ------------------------------------------------- C12: the belief's shape

\* The factor holds no belief, or one with an axis per attached RV, each as
\* long as that RV has values.
BeliefFits(f) == f_belief[f].none \/ f_belief[f].shape = WantedShape(f)

\* C12: under Factor construction, attach and set_belief in any order, every
\* factor's belief is unset or has the shape of its attached RVs, and a step
\* that attaches an RV to a factor leaves that factor without a belief.
C12_BeliefShape ==
    /\ [](\A f \in FactorIds : BeliefFits(f))
    /\ [][\A f \in FactorIds :
            Len(f_rvs'[f]) > Len(f_rvs[f]) => f_belief'[f].none]_vars

\* C12's case: attach succeeded on a factor that held a belief, which is now
\* cleared, while the other factor holds a belief over two RVs.
C12_Witness ==
    /\ ret.op = "attach" /\ ret.err = "none" /\ ret.had
    /\ Len(f_rvs[ret.f]) = 2
    /\ f_belief[ret.f].none
    /\ \E g \in f_live \ {ret.f} : ~f_belief[g].none /\ Len(f_belief[g].shape) = 2

====
